---- MODULE Spec2Model ----
(***************************************************************************)
(* Two lock-free append-only vectors: FixSizedVec (src/src/fix_sized.rs),  *)
(* a pre-allocated array of N slots with a per-slot `inited` flag, and     *)
(* LinkedListVec (src/src/linked_list.rs), a chain of heap nodes linked    *)
(* through `tail`.                                                         *)
(*                                                                         *)
(* Every atomic operation of the source (load, store, compare_exchange,    *)
(* fetch_add) is one step on a single shared memory; the steps of the      *)
(* threads interleave arbitrarily.  The non-atomic write of an element     *)
(* into a slot takes two steps, so that a half-written slot is a state.    *)
(* A run uses one of the two vectors (`kind`), chosen at construction.     *)
(***************************************************************************)
EXTENDS Integers, Sequences, FiniteSets, TLC

\* Number of pusher threads, pushes issued by each, largest capacity N tried.
NumThreads == 2
PushesPerThread == 2
MaxN == 4

Threads == 1..NumThreads
TotalPushes == NumThreads * PushesPerThread

\* null_mut(): the null node pointer.  Node pointers are 1..TotalPushes.
NULL == 0
\* MaybeUninit::uninit(): the content of a slot never written.
Uninit == 0

Nodes == 1..TotalPushes

\* The value pushed by thread t in its k-th push; distinct pushes push
\* distinct values, so a lost or duplicated element is visible.
Val(t, k) == (t - 1) * PushesPerThread + k
\* A slot whose write of v has started and not finished.
Partial(v) == 0 - v
IsValue(x) == x >= 1

\* Option<&T> as returned by get: the value the reference points at.
None == [tag |-> "None", v |-> 0]
Some(x) == [tag |-> "Some", v |-> x]
\* Result<(), ()> of FixSizedVec::push, with the slot an Ok push wrote.
Ok(i) == [ok |-> TRUE, idx |-> i]
Err == [ok |-> FALSE, idx |-> 0 - 1]

VARIABLES
    kind,       \* "array": FixSizedVec, "list": LinkedListVec
    N,          \* capacity of the FixSizedVec (const generic N)
    len,        \* self.len (both vectors)
    entry,      \* array[i].0, the MaybeUninit<T> cell of slot i
    inited,     \* array[i].1, the AtomicBool of slot i
    head,       \* self.head
    tail,       \* self.tail
    next,       \* node.next of every node
    data,       \* node.data of every node
    allocated,  \* nodes obtained from Box::into_raw
    pc,         \* position of each pusher thread inside push
    snapshot,   \* the local `snapshot` of each pusher thread
    ret,        \* per thread, the results of the pushes that returned
    gpc,        \* position of the reader inside LinkedListVec::get
    gidx,       \* the reader's idx argument
    glen,       \* the reader's local `len`, loaded at the start of get
    gp,         \* the reader's local pointer p
    gi,         \* the reader's loop counter
    gres,       \* result of the reader's last get
    seen,       \* per index, the first value a get returned for it
    fault,      \* "none", or the undefined behaviour the process ran into
    linked,     \* the nodes in the order their pushes won the exchange of tail
    dpc,        \* "live", or the position of the destruction of the vector
    dp,         \* drop's local pointer p
    dhead,      \* drop's local head
    dtail,      \* drop's local tail
    freed,      \* nodes reclaimed (list) / slots finalized (array), in order
    fpc,        \* position of the thread formatting the list with Debug
    fp,         \* fmt's local pointer p
    fhead,      \* fmt's local head
    ftail,      \* fmt's local tail
    flen,       \* fmt's local len
    fvec        \* fmt's local vec of visited nodes

vars == <<kind, N, len, entry, inited, head, tail, next, data, allocated,
          pc, snapshot, ret, gpc, gidx, glen, gp, gi, gres, seen, fault,
          linked, dpc, dp, dhead, dtail, freed, fpc, fp, fhead, ftail, flen, fvec>>

arrVars == <<entry, inited>>
listVars == <<head, tail, next, data, allocated>>
readerVars == <<gpc, gidx, glen, gp, gi, gres, seen>>
dropVars == <<dpc, dp, dhead, dtail, freed>>
fmtVars == <<fpc, fp, fhead, ftail, flen, fvec>>

\* The vector has not been dropped and the process has not died.
Running == fault = "none" /\ dpc = "live"

Slots == 0..(N - 1)
\* The number of the push thread t is executing (or would execute next).
CurPush(t) == Len(ret[t]) + 1
CurVal(t) == Val(t, CurPush(t))
\* node_ptr: the node thread t allocated for its current push.
NodePtr(t) == Val(t, CurPush(t))

\* The entry point of push.
FirstPc == IF kind = "array" THEN "load" ELSE "cas_null"
\* Where a thread goes after its push returned r: the loop of the test,
\* for _ in 0..K { vec.push(thread_id).unwrap(); }.  On Err the unwrap panics
\* and the thread makes no further call; a list push returns nothing, so its
\* loop always goes on.
AfterReturn(t, r) ==
    IF ~r.ok THEN "unwrap_err"
    ELSE IF Len(ret[t]) + 1 >= PushesPerThread THEN "done" ELSE FirstPc

Init ==
    /\ kind \in {"array", "list"}
    /\ N \in IF kind = "array" THEN 1..MaxN ELSE {0}
    /\ len = 0
    /\ entry = [i \in Slots |-> Uninit]
    /\ inited = [i \in Slots |-> FALSE]
    /\ head = NULL
    /\ tail = NULL
    /\ next = [n \in Nodes |-> NULL]
    /\ data = [n \in Nodes |-> Uninit]
    /\ allocated = {}
    /\ pc = [t \in Threads |-> FirstPc]
    /\ snapshot = [t \in Threads |-> 0]
    /\ ret = [t \in Threads |-> <<>>]
    /\ gpc = "idle"
    /\ gidx = 0
    /\ glen = 0
    /\ gp = NULL
    /\ gi = 0
    /\ gres = None
    /\ seen = [i \in 0..TotalPushes |-> Uninit]
    /\ fault = "none"
    /\ linked = <<>>
    /\ dpc = "live"
    /\ dp = NULL
    /\ dhead = NULL
    /\ dtail = NULL
    /\ freed = <<>>
    /\ fpc = "idle"
    /\ fp = NULL
    /\ fhead = NULL
    /\ ftail = NULL
    /\ flen = 0
    /\ fvec = <<>>

---------------------------------------------------------------------------
\* FixSizedVec::push

\* Variant of FsvPushLoad: the counter is probed with fetch_add, so a push
\* that finds the vector full still advances it.
FsvPushLoadFetchAdd(t) ==
    /\ kind = "array" /\ Running /\ pc[t] = "load"
    /\ snapshot' = [snapshot EXCEPT ![t] = len]
    /\ IF len = N
       THEN /\ ret' = [ret EXCEPT ![t] = Append(@, Err)]
            /\ pc' = [pc EXCEPT ![t] = AfterReturn(t, Err)]
            /\ len' = len + 1
       ELSE /\ pc' = [pc EXCEPT ![t] = "cas"]
            /\ ret' = ret
            /\ len' = len
    /\ UNCHANGED <<kind, N, arrVars, listVars, readerVars, fault>>
    /\ UNCHANGED <<linked, dropVars, fmtVars>>

\* Variant of FsvPushLoad: the vector is reported full one slot early.
FsvPushLoadEarlyFull(t) ==
    /\ kind = "array" /\ Running /\ pc[t] = "load"
    /\ snapshot' = [snapshot EXCEPT ![t] = len]
    /\ IF len + 1 >= N
       THEN /\ ret' = [ret EXCEPT ![t] = Append(@, Err)]
            /\ pc' = [pc EXCEPT ![t] = AfterReturn(t, Err)]
       ELSE /\ pc' = [pc EXCEPT ![t] = "cas"]
            /\ ret' = ret
    /\ UNCHANGED <<kind, N, len, arrVars, listVars, readerVars, fault>>
    /\ UNCHANGED <<linked, dropVars, fmtVars>>

\* let snapshot = self.len.load(Relaxed); if snapshot == N { return Err(()) }
FsvPushLoad(t) ==
    /\ kind = "array" /\ Running /\ pc[t] = "load"
    /\ snapshot' = [snapshot EXCEPT ![t] = len]
    /\ IF len = N
       THEN /\ ret' = [ret EXCEPT ![t] = Append(@, Err)]
            /\ pc' = [pc EXCEPT ![t] = AfterReturn(t, Err)]
       ELSE /\ pc' = [pc EXCEPT ![t] = "cas"]
            /\ ret' = ret
    /\ UNCHANGED <<kind, N, len, arrVars, listVars, readerVars, fault>>
    /\ UNCHANGED <<linked, dropVars, fmtVars>>

\* Variant of FsvPushCas: a plain store of snapshot + 1, which never fails.
FsvPushCasBlind(t) ==
    /\ kind = "array" /\ Running /\ pc[t] = "cas"
    /\ len' = snapshot[t] + 1
    /\ pc' = [pc EXCEPT ![t] = "assert"]
    /\ UNCHANGED <<kind, N, arrVars, listVars, snapshot, ret, readerVars, fault>>
    /\ UNCHANGED <<linked, dropVars, fmtVars>>

\* Variant of FsvPushCas: the exchange stores the snapshot back instead of
\* snapshot + 1, so the counter never advances.
FsvPushCasNoAdvance(t) ==
    /\ kind = "array" /\ Running /\ pc[t] = "cas"
    /\ IF len = snapshot[t]
       THEN /\ len' = snapshot[t]
            /\ pc' = [pc EXCEPT ![t] = "assert"]
       ELSE /\ len' = len
            /\ pc' = [pc EXCEPT ![t] = "load"]
    /\ UNCHANGED <<kind, N, arrVars, listVars, snapshot, ret, readerVars, fault>>
    /\ UNCHANGED <<linked, dropVars, fmtVars>>

\* Variant of FsvPushCas: compare_exchange_weak, which may fail although the
\* counter still equals the snapshot.
FsvPushCasWeak(t) ==
    /\ kind = "array" /\ Running /\ pc[t] = "cas"
    /\ \/ /\ len = snapshot[t]
          /\ len' = snapshot[t] + 1
          /\ pc' = [pc EXCEPT ![t] = "assert"]
       \/ /\ len' = len
          /\ pc' = [pc EXCEPT ![t] = "load"]
    /\ UNCHANGED <<kind, N, arrVars, listVars, snapshot, ret, readerVars, fault>>
    /\ UNCHANGED <<linked, dropVars, fmtVars>>

\* self.len.compare_exchange(snapshot, snapshot + 1, Relaxed, Relaxed).is_ok()
FsvPushCas(t) ==
    /\ kind = "array" /\ Running /\ pc[t] = "cas"
    /\ IF len = snapshot[t]
       THEN /\ len' = snapshot[t] + 1
            /\ pc' = [pc EXCEPT ![t] = "assert"]
       ELSE /\ len' = len
            /\ pc' = [pc EXCEPT ![t] = "load"]
    /\ UNCHANGED <<kind, N, arrVars, listVars, snapshot, ret, readerVars, fault>>
    /\ UNCHANGED <<linked, dropVars, fmtVars>>

\* assert!(!inited.load(Relaxed)): a failed assertion panics the thread.
FsvPushAssert(t) ==
    /\ kind = "array" /\ Running /\ pc[t] = "assert"
    /\ pc' = [pc EXCEPT ![t] = IF inited[snapshot[t]] THEN "panic" ELSE "write"]
    /\ UNCHANGED <<kind, N, len, arrVars, listVars, snapshot, ret, readerVars, fault>>
    /\ UNCHANGED <<linked, dropVars, fmtVars>>

\* Variant of FsvPushWrite: the flag is stored before the element is written.
FsvPushWriteFlagFirst(t) ==
    /\ kind = "array" /\ Running /\ pc[t] = "write"
    /\ entry' = [entry EXCEPT ![snapshot[t]] = Partial(CurVal(t))]
    /\ inited' = [inited EXCEPT ![snapshot[t]] = TRUE]
    /\ pc' = [pc EXCEPT ![t] = "write_end"]
    /\ UNCHANGED <<kind, N, len, listVars, snapshot, ret, readerVars, fault>>
    /\ UNCHANGED <<linked, dropVars, fmtVars>>

\* entry.write(val), first half: the cell holds a half-written element.
FsvPushWrite(t) ==
    /\ kind = "array" /\ Running /\ pc[t] = "write"
    /\ entry' = [entry EXCEPT ![snapshot[t]] = Partial(CurVal(t))]
    /\ pc' = [pc EXCEPT ![t] = "write_end"]
    /\ UNCHANGED <<kind, N, len, inited, listVars, snapshot, ret, readerVars, fault>>
    /\ UNCHANGED <<linked, dropVars, fmtVars>>

\* entry.write(val), second half: the element is fully written.
FsvPushWriteEnd(t) ==
    /\ kind = "array" /\ Running /\ pc[t] = "write_end"
    /\ entry' = [entry EXCEPT ![snapshot[t]] = CurVal(t)]
    /\ pc' = [pc EXCEPT ![t] = "publish"]
    /\ UNCHANGED <<kind, N, len, inited, listVars, snapshot, ret, readerVars, fault>>
    /\ UNCHANGED <<linked, dropVars, fmtVars>>

\* Variant of FsvPushPublish: the flag of slot len - 1 (the slot reserved
\* last) is stored instead of the flag of the slot this push reserved.
FsvPushPublishLast(t) ==
    /\ kind = "array" /\ Running /\ pc[t] = "publish"
    /\ inited' = [inited EXCEPT ![len - 1] = TRUE]
    /\ ret' = [ret EXCEPT ![t] = Append(@, Ok(snapshot[t]))]
    /\ pc' = [pc EXCEPT ![t] = AfterReturn(t, Ok(snapshot[t]))]
    /\ UNCHANGED <<kind, N, len, entry, listVars, snapshot, readerVars, fault>>
    /\ UNCHANGED <<linked, dropVars, fmtVars>>

\* inited.store(true, Relaxed); return Ok(())
FsvPushPublish(t) ==
    /\ kind = "array" /\ Running /\ pc[t] = "publish"
    /\ inited' = [inited EXCEPT ![snapshot[t]] = TRUE]
    /\ ret' = [ret EXCEPT ![t] = Append(@, Ok(snapshot[t]))]
    /\ pc' = [pc EXCEPT ![t] = AfterReturn(t, Ok(snapshot[t]))]
    /\ UNCHANGED <<kind, N, len, entry, listVars, snapshot, readerVars, fault>>
    /\ UNCHANGED <<linked, dropVars, fmtVars>>

---------------------------------------------------------------------------
\* FixSizedVec::get and len

\* get(idx): None for idx >= N or a flag that reads false, else a reference
\* to the cell, whose content is what the caller reads through it.
FsvGet(idx) ==
    IF idx >= N THEN None
    ELSE IF inited[idx] THEN Some(entry[idx]) ELSE None

\* The first value a get returned for each index.
Remember(idx, r) ==
    IF r.tag = "Some" /\ seen[idx] = Uninit
    THEN [seen EXCEPT ![idx] = r.v]
    ELSE seen

\* A reader thread calls get(idx).
FsvReaderGet ==
    /\ kind = "array" /\ Running
    /\ \E idx \in 0..N :
        /\ gidx' = idx
        /\ gres' = FsvGet(idx)
        /\ seen' = Remember(idx, FsvGet(idx))
    /\ UNCHANGED <<kind, N, len, arrVars, listVars, pc, snapshot, ret, gpc, glen, gp, gi, fault>>
    /\ UNCHANGED <<linked, dropVars, fmtVars>>

\* len(): self.len.load(Relaxed), in both vectors.
VecLen == len

---------------------------------------------------------------------------
\* LinkedListVec::push

\* Variant of LlvPushCasNull: the vector is taken as empty while head is null
\* (a store of tail guarded by a load of head, not an exchange on tail).
LlvPushCasNullByHead(t) ==
    /\ kind = "list" /\ Running /\ pc[t] = "cas_null"
    /\ allocated' = allocated \cup {NodePtr(t)}
    /\ data' = [data EXCEPT ![NodePtr(t)] = CurVal(t)]
    /\ IF head = NULL
       THEN /\ tail' = NodePtr(t)
            /\ linked' = Append(linked, NodePtr(t))
            /\ pc' = [pc EXCEPT ![t] = "set_head"]
       ELSE /\ tail' = tail
            /\ linked' = linked
            /\ pc' = [pc EXCEPT ![t] = "load_tail"]
    /\ UNCHANGED <<kind, N, len, arrVars, head, next, snapshot, ret, readerVars, fault>>
    /\ UNCHANGED <<dropVars, fmtVars>>

\* Variant of LlvPushCasNull: compare_exchange_weak, which may fail although
\* tail is still null.
LlvPushCasNullWeak(t) ==
    /\ kind = "list" /\ Running /\ pc[t] = "cas_null"
    /\ allocated' = allocated \cup {NodePtr(t)}
    /\ data' = [data EXCEPT ![NodePtr(t)] = CurVal(t)]
    /\ \/ /\ tail = NULL
          /\ tail' = NodePtr(t)
          /\ linked' = Append(linked, NodePtr(t))
          /\ pc' = [pc EXCEPT ![t] = "set_head"]
       \/ /\ tail' = tail
          /\ linked' = linked
          /\ pc' = [pc EXCEPT ![t] = "load_tail"]
    /\ UNCHANGED <<kind, N, len, arrVars, head, next, snapshot, ret, readerVars, fault>>
    /\ UNCHANGED <<dropVars, fmtVars>>

\* let node_ptr = Box::into_raw(Box::new(Node::new(val)));
\* self.tail.compare_exchange(null_mut(), node_ptr, Relaxed, Relaxed).is_ok()
LlvPushCasNull(t) ==
    /\ kind = "list" /\ Running /\ pc[t] = "cas_null"
    /\ allocated' = allocated \cup {NodePtr(t)}
    /\ data' = [data EXCEPT ![NodePtr(t)] = CurVal(t)]
    /\ IF tail = NULL
       THEN /\ tail' = NodePtr(t)
            /\ linked' = Append(linked, NodePtr(t))
            /\ pc' = [pc EXCEPT ![t] = "set_head"]
       ELSE /\ tail' = tail
            /\ linked' = linked
            /\ pc' = [pc EXCEPT ![t] = "load_tail"]
    /\ UNCHANGED <<kind, N, len, arrVars, head, next, snapshot, ret, readerVars, fault>>
    /\ UNCHANGED <<dropVars, fmtVars>>

\* self.head.store(node_ptr, Relaxed)
LlvPushSetHead(t) ==
    /\ kind = "list" /\ Running /\ pc[t] = "set_head"
    /\ head' = NodePtr(t)
    /\ pc' = [pc EXCEPT ![t] = "inc"]
    /\ UNCHANGED <<kind, N, len, arrVars, tail, next, data, allocated, snapshot, ret,
                   readerVars, fault>>
    /\ UNCHANGED <<linked, dropVars, fmtVars>>

\* let snapshot = self.tail.load(Relaxed); assert_ne!(snapshot, null_mut());
LlvPushLoadTail(t) ==
    /\ kind = "list" /\ Running /\ pc[t] = "load_tail"
    /\ snapshot' = [snapshot EXCEPT ![t] = tail]
    /\ pc' = [pc EXCEPT ![t] = IF tail = NULL THEN "panic" ELSE "cas_tail"]
    /\ UNCHANGED <<kind, N, len, arrVars, listVars, ret, readerVars, fault>>
    /\ UNCHANGED <<linked, dropVars, fmtVars>>

\* Variant of LlvPushCasTail: a plain store of tail, which never fails.
LlvPushCasTailBlind(t) ==
    /\ kind = "list" /\ Running /\ pc[t] = "cas_tail"
    /\ tail' = NodePtr(t)
    /\ linked' = Append(linked, NodePtr(t))
    /\ pc' = [pc EXCEPT ![t] = "set_next"]
    /\ UNCHANGED <<kind, N, len, arrVars, head, next, data, allocated, snapshot, ret,
                   readerVars, fault>>
    /\ UNCHANGED <<dropVars, fmtVars>>

\* self.tail.compare_exchange(snapshot, node_ptr, Relaxed, Relaxed).is_ok()
LlvPushCasTail(t) ==
    /\ kind = "list" /\ Running /\ pc[t] = "cas_tail"
    /\ IF tail = snapshot[t]
       THEN /\ tail' = NodePtr(t)
            /\ linked' = Append(linked, NodePtr(t))
            /\ pc' = [pc EXCEPT ![t] = "set_next"]
       ELSE /\ tail' = tail
            /\ linked' = linked
            /\ pc' = [pc EXCEPT ![t] = "load_tail"]
    /\ UNCHANGED <<kind, N, len, arrVars, head, next, data, allocated, snapshot, ret,
                   readerVars, fault>>
    /\ UNCHANGED <<dropVars, fmtVars>>

\* Variant of LlvPushSetNext: the new node is linked in front of the chain
\* (its next is the old head and head the new node) instead of behind the
\* previous tail.
LlvPushSetNextFront(t) ==
    /\ kind = "list" /\ Running /\ pc[t] = "set_next"
    /\ next' = [next EXCEPT ![NodePtr(t)] = head]
    /\ head' = NodePtr(t)
    /\ pc' = [pc EXCEPT ![t] = "inc"]
    /\ UNCHANGED <<kind, N, len, arrVars, tail, data, allocated, snapshot, ret,
                   readerVars, fault>>
    /\ UNCHANGED <<linked, dropVars, fmtVars>>

\* Variant of LlvPushSetNext: the next of the node tail holds now is stored,
\* not the next of the snapshot the exchange replaced.
LlvPushSetNextOfTail(t) ==
    /\ kind = "list" /\ Running /\ pc[t] = "set_next"
    /\ next' = [next EXCEPT ![tail] = NodePtr(t)]
    /\ pc' = [pc EXCEPT ![t] = "inc"]
    /\ UNCHANGED <<kind, N, len, arrVars, head, tail, data, allocated, snapshot, ret,
                   readerVars, fault>>
    /\ UNCHANGED <<linked, dropVars, fmtVars>>

\* unsafe { &*snapshot }.next.store(node_ptr, Relaxed); break;
LlvPushSetNext(t) ==
    /\ kind = "list" /\ Running /\ pc[t] = "set_next"
    /\ next' = [next EXCEPT ![snapshot[t]] = NodePtr(t)]
    /\ pc' = [pc EXCEPT ![t] = "inc"]
    /\ UNCHANGED <<kind, N, len, arrVars, head, tail, data, allocated, snapshot, ret,
                   readerVars, fault>>
    /\ UNCHANGED <<linked, dropVars, fmtVars>>

\* Variant of LlvPushInc: fetch_sub in place of fetch_add.
LlvPushIncSub(t) ==
    /\ kind = "list" /\ Running /\ pc[t] = "inc"
    /\ len' = len - 1
    /\ ret' = [ret EXCEPT ![t] = Append(@, Ok(NodePtr(t)))]
    /\ pc' = [pc EXCEPT ![t] = AfterReturn(t, Ok(NodePtr(t)))]
    /\ UNCHANGED <<kind, N, arrVars, listVars, snapshot, readerVars, fault>>
    /\ UNCHANGED <<linked, dropVars, fmtVars>>

\* self.len.fetch_add(1, Relaxed); and push returns
LlvPushInc(t) ==
    /\ kind = "list" /\ Running /\ pc[t] = "inc"
    /\ len' = len + 1
    /\ ret' = [ret EXCEPT ![t] = Append(@, Ok(NodePtr(t)))]
    /\ pc' = [pc EXCEPT ![t] = AfterReturn(t, Ok(NodePtr(t)))]
    /\ UNCHANGED <<kind, N, arrVars, listVars, snapshot, readerVars, fault>>
    /\ UNCHANGED <<linked, dropVars, fmtVars>>

---------------------------------------------------------------------------
\* LinkedListVec::get

\* Variant of LlvGetLen: the bound check is idx > len.
LlvGetLenOffByOne ==
    /\ kind = "list" /\ Running /\ gpc = "idle"
    /\ \E idx \in 0..TotalPushes :
        /\ gidx' = idx
        /\ glen' = len
        /\ IF idx > len
           THEN gres' = None /\ gpc' = "idle"
           ELSE gres' = gres /\ gpc' = "head"
    /\ UNCHANGED <<kind, N, len, arrVars, listVars, pc, snapshot, ret, gp, gi, seen, fault>>
    /\ UNCHANGED <<linked, dropVars, fmtVars>>

\* let len = self.len.load(Relaxed); if idx >= len { return None; }
LlvGetLen ==
    /\ kind = "list" /\ Running /\ gpc = "idle"
    /\ \E idx \in 0..TotalPushes :
        /\ gidx' = idx
        /\ glen' = len
        /\ IF idx >= len
           THEN gres' = None /\ gpc' = "idle"
           ELSE gres' = gres /\ gpc' = "head"
    /\ UNCHANGED <<kind, N, len, arrVars, listVars, pc, snapshot, ret, gp, gi, seen, fault>>
    /\ UNCHANGED <<linked, dropVars, fmtVars>>

\* let mut p = self.head.load(Relaxed);
LlvGetHead ==
    /\ kind = "list" /\ Running /\ gpc = "head"
    /\ gp' = head
    /\ gi' = 0
    /\ gpc' = "walk"
    /\ UNCHANGED <<kind, N, len, arrVars, listVars, pc, snapshot, ret, gidx, glen, gres, seen, fault>>
    /\ UNCHANGED <<linked, dropVars, fmtVars>>

\* for _ in 0..idx { p = unsafe { &*p }.next.load(Relaxed); }
\* Loading next through a null p reads address 0 + offset: the process dies.
LlvGetWalk ==
    /\ kind = "list" /\ Running /\ gpc = "walk" /\ gi < gidx
    /\ IF gp = NULL
       THEN /\ fault' = "null_deref"
            /\ UNCHANGED <<gp, gi, gpc>>
       ELSE /\ gp' = next[gp]
            /\ gi' = gi + 1
            /\ UNCHANGED <<fault, gpc>>
    /\ UNCHANGED <<kind, N, len, arrVars, listVars, pc, snapshot, ret, gidx, glen, gres, seen>>
    /\ UNCHANGED <<linked, dropVars, fmtVars>>

\* Some(&unsafe { &*p }.data)
\* With p null the reference is null + offset of data: the caller's read
\* through it kills the process, or (offset 0) the Option reads as None.
LlvGetRet ==
    /\ kind = "list" /\ Running /\ gpc = "walk" /\ gi = gidx
    /\ IF gp = NULL
       THEN \/ /\ fault' = "null_deref"
               /\ UNCHANGED <<gres, seen, gpc>>
            \/ /\ gres' = None
               /\ gpc' = "idle"
               /\ UNCHANGED <<seen, fault>>
       ELSE /\ gres' = Some(data[gp])
            /\ seen' = Remember(gidx, Some(data[gp]))
            /\ gpc' = "idle"
            /\ fault' = fault
    /\ UNCHANGED <<kind, N, len, arrVars, listVars, pc, snapshot, ret, gidx, glen, gp, gi>>
    /\ UNCHANGED <<linked, dropVars, fmtVars>>

\* The process died in get.
Fault == [tag |-> "Fault", v |-> 0]

RECURSIVE LlvWalk(_, _)
LlvWalk(p, k) ==
    IF k = 0 \/ p = NULL THEN p ELSE LlvWalk(next[p], k - 1)

\* get(idx) run with no push in between its loads: the set of results the
\* whole function can produce.  A null p inside the loop is loaded through
\* (address 0 + offset of next): the process dies.  A null p after the loop
\* gives the reference null + offset of data, which is undefined behaviour:
\* the caller's read through it kills the process, or (offset 0) the Option
\* reads as None.
LlvGet(idx) ==
    IF idx >= len THEN {None}
    ELSE IF idx > 0 /\ LlvWalk(head, idx - 1) = NULL THEN {Fault}
    ELSE LET p == LlvWalk(head, idx)
         IN IF p = NULL THEN {Fault, None} ELSE {Some(data[p])}

---------------------------------------------------------------------------
\* Debug for LinkedListVec

\* let mut vec = StdVec::new(); let head = self.head.load(Relaxed);
LlvFmtLoadHead ==
    /\ kind = "list" /\ Running /\ fpc = "idle"
    /\ fvec' = <<>>
    /\ fhead' = head
    /\ fpc' = "tail"
    /\ UNCHANGED <<kind, N, len, arrVars, listVars, pc, snapshot, ret, readerVars,
                   fault, linked, dropVars, fp, ftail, flen>>

\* let tail = self.tail.load(Relaxed);
LlvFmtLoadTail ==
    /\ kind = "list" /\ Running /\ fpc = "tail"
    /\ ftail' = tail
    /\ fpc' = "len"
    /\ UNCHANGED <<kind, N, len, arrVars, listVars, pc, snapshot, ret, readerVars,
                   fault, linked, dropVars, fp, fhead, flen, fvec>>

\* let len = self.len.load(Relaxed); if !head.is_null() { let mut p = head;
\* With head null the struct is printed at once with an empty vec.
LlvFmtLoadLen ==
    /\ kind = "list" /\ Running /\ fpc = "len"
    /\ flen' = len
    /\ IF fhead # NULL
       THEN fp' = fhead /\ fpc' = "visit"
       ELSE fp' = fp /\ fpc' = "idle"
    /\ UNCHANGED <<kind, N, len, arrVars, listVars, pc, snapshot, ret, readerVars,
                   fault, linked, dropVars, fhead, ftail, fvec>>

\* One iteration of the loop: let p_node = unsafe { &*p }; vec.push(p_node);
\* if ptr::eq(p, tail) { break; } p = p_node.next.load(Relaxed);
\* With p null, &*p is a null reference and the load of next reads address
\* 0 + offset: the process dies.
LlvFmtVisit ==
    /\ kind = "list" /\ Running /\ fpc = "visit"
    /\ IF fp = NULL
       THEN /\ fault' = "null_deref"
            /\ UNCHANGED <<fpc, fp, fvec>>
       ELSE /\ fvec' = Append(fvec, fp)
            /\ fault' = fault
            /\ IF fp = ftail
               THEN fpc' = "idle" /\ fp' = fp
               ELSE fpc' = fpc /\ fp' = next[fp]
    /\ UNCHANGED <<kind, N, len, arrVars, listVars, pc, snapshot, ret, readerVars,
                   linked, dropVars, fhead, ftail, flen>>

---------------------------------------------------------------------------
\* Destruction

\* No push is executing: drop takes &mut self, so every push has returned.
NoPushRunning == \A t \in Threads : pc[t] \in {FirstPc, "done", "unwrap_err"}

\* Drop for LinkedListVec: let head = self.head.load(Relaxed);
\* let tail = self.tail.load(Relaxed); if !head.is_null() { let mut p = head;
LlvDropStart ==
    /\ kind = "list" /\ Running /\ NoPushRunning
    /\ gpc = "idle" /\ fpc = "idle"
    /\ dhead' = head
    /\ dtail' = tail
    /\ dp' = head
    /\ dpc' = IF head = NULL THEN "done" ELSE "walk"
    /\ UNCHANGED <<kind, N, len, arrVars, listVars, pc, snapshot, ret, readerVars,
                   fault, linked, freed, fmtVars>>

\* Variant of LlvDropWalk: the comparison with tail comes before
\* Box::from_raw, so the walk stops without reclaiming the tail node.
LlvDropWalkBreakFirst ==
    /\ kind = "list" /\ fault = "none" /\ dpc = "walk"
    /\ IF dp = dtail
       THEN /\ dpc' = "done"
            /\ UNCHANGED <<dp, freed>>
       ELSE /\ freed' = Append(freed, dp)
            /\ dp' = next[dp]
            /\ dpc' = dpc
    /\ UNCHANGED <<kind, N, len, arrVars, listVars, pc, snapshot, ret, readerVars,
                   fault, linked, dhead, dtail, fmtVars>>

\* Variant of LlvDropWalk: head and tail are stored null when the walk ends.
LlvDropWalkReset ==
    /\ kind = "list" /\ fault = "none" /\ dpc = "walk"
    /\ dp # NULL
    /\ freed' = Append(freed, dp)
    /\ IF dp = dtail
       THEN /\ dpc' = "done"
            /\ dp' = dp
            /\ head' = NULL
            /\ tail' = NULL
       ELSE /\ dpc' = dpc
            /\ dp' = next[dp]
            /\ UNCHANGED <<head, tail>>
    /\ UNCHANGED <<kind, N, len, arrVars, next, data, allocated, pc, snapshot, ret,
                   readerVars, fault, linked, dhead, dtail, fmtVars>>

\* One iteration of the loop: let p_node = unsafe { Box::from_raw(p) };
\* let p_next = p_node.next.load(Relaxed); if ptr::eq(p, tail) { break; }
\* p = p_next;  -- p_node is dropped (the node reclaimed) when the iteration
\* ends.  Box::from_raw of null or of a node already reclaimed is undefined
\* behaviour: the process dies.
LlvDropWalk ==
    /\ kind = "list" /\ fault = "none" /\ dpc = "walk"
    /\ IF dp = NULL \/ (\E i \in 1..Len(freed) : freed[i] = dp)
       THEN /\ fault' = "bad_free"
            /\ UNCHANGED <<dpc, dp, freed>>
       ELSE /\ freed' = Append(freed, dp)
            /\ fault' = fault
            /\ IF dp = dtail
               THEN dpc' = "done" /\ dp' = dp
               ELSE dpc' = dpc /\ dp' = next[dp]
    /\ UNCHANGED <<kind, N, len, arrVars, listVars, pc, snapshot, ret, readerVars,
                   linked, dhead, dtail, fmtVars>>

\* FixSizedVec has no Drop impl: dropping it drops the array of
\* (MaybeUninit<T>, AtomicBool), and MaybeUninit<T> never runs T's destructor.
FsvDrop ==
    /\ kind = "array" /\ Running /\ NoPushRunning
    /\ dpc' = "done"
    /\ freed' = freed
    /\ UNCHANGED <<kind, N, len, arrVars, listVars, pc, snapshot, ret, readerVars,
                   fault, linked, dp, dhead, dtail, fmtVars>>

---------------------------------------------------------------------------
\* The pusher threads alone.
PushNext ==
    \/ \E t \in Threads : FsvPushLoad(t)
    \/ \E t \in Threads : FsvPushCas(t)
    \/ \E t \in Threads : FsvPushAssert(t)
    \/ \E t \in Threads : FsvPushWrite(t)
    \/ \E t \in Threads : FsvPushWriteEnd(t)
    \/ \E t \in Threads : FsvPushPublish(t)
    \/ \E t \in Threads : LlvPushCasNull(t)
    \/ \E t \in Threads : LlvPushSetHead(t)
    \/ \E t \in Threads : LlvPushLoadTail(t)
    \/ \E t \in Threads : LlvPushCasTail(t)
    \/ \E t \in Threads : LlvPushSetNext(t)
    \/ \E t \in Threads : LlvPushInc(t)

\* The next step of pusher thread t.
PushStep(t) ==
    \/ FsvPushLoad(t)
    \/ FsvPushCas(t)
    \/ FsvPushAssert(t)
    \/ FsvPushWrite(t)
    \/ FsvPushWriteEnd(t)
    \/ FsvPushPublish(t)
    \/ LlvPushCasNull(t)
    \/ LlvPushSetHead(t)
    \/ LlvPushLoadTail(t)
    \/ LlvPushCasTail(t)
    \/ LlvPushSetNext(t)
    \/ LlvPushInc(t)

\* The pusher threads and a reader thread calling get.
Next ==
    \/ PushNext
    \/ FsvReaderGet
    \/ LlvGetLen
    \/ LlvGetHead
    \/ LlvGetWalk
    \/ LlvGetRet

Spec == Init /\ [][Next]_vars

\* Pushes with no concurrent reader (get changes nothing a push reads).
PushSpec == Init /\ [][PushNext]_vars

\* Pushes under a scheduler that keeps running every thread that can run.
FairPushSpec == PushSpec /\ \A t \in Threads : WF_vars(PushStep(t))

\* Pushes, then the destruction of the vector.
DropNext ==
    \/ PushNext
    \/ LlvDropStart
    \/ LlvDropWalk
    \/ FsvDrop

DropSpec == Init /\ [][DropNext]_vars

\* The pusher threads and a thread formatting the list with {:?}.
FmtNext ==
    \/ PushNext
    \/ LlvFmtLoadHead
    \/ LlvFmtLoadTail
    \/ LlvFmtLoadLen
    \/ LlvFmtVisit

FmtSpec == Init /\ [][FmtNext]_vars

---------------------------------------------------------------------------
\* Properties

\* Every thread finished its loop of pushes.
AllDone == \A t \in Threads : pc[t] = "done"
\* Every thread ended, its loop finished or its unwrap of an Err panicked:
\* every push call issued has returned.
AllReturned == \A t \in Threads : pc[t] \in {"done", "unwrap_err"}
\* A thread that won the counter exchange and has not returned yet.
InFlight(t) == pc[t] \in {"assert", "write", "write_end", "publish"}
\* The pushes (thread, number) that returned.
Returned == {tk \in Threads \X (1..PushesPerThread) : tk[2] <= Len(ret[tk[1]])}
\* The returned pushes that stored their element.
Stored == {tk \in Returned : ret[tk[1]][tk[2]].ok}

\* C1: FixSizedVec: a reader never observes a half-constructed element: a
\* slot whose flag is true holds a completely written element, every get
\* that returned a reference returned one to a completely written element,
\* and get is None for a slot that is unreserved or whose write is in flight.
C1_NoHalfConstructed ==
    kind = "array" =>
        /\ \A i \in Slots : inited[i] => IsValue(entry[i])
        /\ gres.tag = "Some" => IsValue(gres.v)
        /\ \A i \in Slots : (i >= len \/ ~IsValue(entry[i])) => FsvGet(i) = None

\* A get of a slot whose write is in flight returned None, while another
\* slot is published and was read.
C1_Witness ==
    /\ kind = "array"
    /\ \E i \in Slots : entry[i] < 0 /\ gidx = i /\ gres = None
    /\ \E j \in Slots : inited[j] /\ IsValue(seen[j])

\* The pushes holding slot i: the in-flight thread that reserved it and the
\* returned pushes that stored into it.
Owners(i) ==
    {<<t, CurPush(t)>> : t \in {u \in Threads : InFlight(u) /\ snapshot[u] = i}}
    \cup {tk \in Stored : ret[tk[1]][tk[2]].idx = i}

\* C2: FixSizedVec: every index below the counter was reserved by exactly one
\* push and no index at or above it by any, so no two pushes write the same
\* slot, and the assertion that the reserved slot's flag is false never fails.
C2_OneReservationPerIndex ==
    kind = "array" =>
        /\ \A i \in Slots : Cardinality(Owners(i)) = IF i < len THEN 1 ELSE 0
        /\ \A t \in Threads : pc[t] # "panic"
        /\ len <= N

\* Two pushes are past their exchange at the same time, on different slots.
C2_Witness ==
    /\ kind = "array"
    /\ \E t1, t2 \in Threads :
        /\ t1 # t2 /\ InFlight(t1) /\ InFlight(t2)
        /\ snapshot[t1] # snapshot[t2]

\* How many indices below n yield value v, and how many pushes pushed v.
FsvCount(v, n) == Cardinality({i \in 0..(n - 1) : FsvGet(i) = Some(v)})
LlvCount(v, n) == Cardinality({i \in 0..(n - 1) : LlvGet(i) = {Some(v)}})
PushCount(v) ==
    Cardinality({tk \in Threads \X (1..PushesPerThread) : Val(tk[1], tk[2]) = v})

\* C3: FixSizedVec: with T*K <= N, once every push has returned, every push
\* returned Ok, len() is T*K, get(i) is present for every i below T*K and the
\* values read there are the values pushed, each as often as it was pushed.
C3_ArrayAllPushed ==
    (kind = "array" /\ TotalPushes <= N /\ AllReturned) =>
        /\ \A t \in Threads : \A k \in 1..Len(ret[t]) : ret[t][k].ok
        /\ \A t \in Threads : Len(ret[t]) = PushesPerThread /\ pc[t] = "done"
        /\ VecLen = TotalPushes
        /\ \A i \in 0..(TotalPushes - 1) : FsvGet(i).tag = "Some"
        /\ \A v \in 1..TotalPushes : FsvCount(v, TotalPushes) = PushCount(v)

\* All pushes returned into a vector of capacity exactly T*K.
C3_Witness ==
    /\ kind = "array" /\ N = TotalPushes /\ AllReturned
    /\ \E i \in Slots : entry[i] = Val(NumThreads, 1) /\ i < TotalPushes - 1

\* C4: LinkedListVec: once every push has returned, len() is T*K, get(i) is
\* present for every i below T*K and the values read there are the values
\* pushed, each as often as it was pushed.
C4_ListAllPushed ==
    (kind = "list" /\ AllDone) =>
        /\ VecLen = TotalPushes
        /\ \A i \in 0..(TotalPushes - 1) : (\A r \in LlvGet(i) : r.tag = "Some")
        /\ \A v \in 1..TotalPushes : LlvCount(v, TotalPushes) = PushCount(v)

\* All pushes returned and the chain interleaves the threads' nodes.
C4_Witness ==
    /\ kind = "list" /\ AllDone
    /\ LlvGet(0) = {Some(Val(NumThreads, 1))}
    /\ LlvGet(1) = {Some(Val(1, 1))}

\* C5: LinkedListVec: get never dereferences a null pointer: once the count
\* it loaded exceeds idx, the head it loaded and every next pointer it
\* follows are non-null.
C5_GetNeverDerefsNull ==
    kind = "list" =>
        /\ fault = "none"
        /\ gpc = "walk" => gp # NULL

\* C6: FixSizedVec: a push that loads a counter equal to N returns Err in that
\* step, without going on to the exchange, and leaves the counter, every
\* slot's content and every slot's flag unchanged.
C6_FullPushChangesNothing ==
    [][\A t \in Threads :
        (/\ kind = "array" /\ pc[t] = "load" /\ len = N
         /\ (pc'[t] # pc[t] \/ ret'[t] # ret[t] \/ snapshot'[t] # snapshot[t]))
        => /\ ret'[t] = Append(ret[t], Err)
           /\ pc'[t] = "unwrap_err"
           /\ len' = len /\ entry' = entry /\ inited' = inited]_vars

\* A push returned Err from a full vector whose slots are all published.
C6_Witness ==
    /\ kind = "array" /\ len = N
    /\ \A i \in Slots : inited[i] /\ IsValue(entry[i])
    /\ \E t \in Threads : Len(ret[t]) >= 1 /\ ~ret[t][Len(ret[t])].ok

\* C7: get(idx) is None whenever idx >= len() at the call.  FixSizedVec: a
\* published slot has an index below the counter, so get of an index at or
\* above it is None.  LinkedListVec: get goes past its bound check only with
\* idx below the count it loaded, which len() had reached.
C7_GetBeyondLenAbsent ==
    /\ kind = "array" =>
        /\ \A i \in Slots : inited[i] => i < len
        /\ \A i \in 0..N : i >= VecLen => FsvGet(i) = None
        /\ gres.tag = "Some" => gidx < VecLen
    /\ kind = "list" =>
        /\ gpc # "idle" => gidx < glen
        /\ (gpc = "idle" /\ gres.tag = "Some") => gidx < glen
        /\ glen <= VecLen
        /\ \A i \in 0..TotalPushes : i >= VecLen => LlvGet(i) = {None}

\* A get of the first unreserved index returned None while a reserved slot
\* is still unpublished.
C7_Witness ==
    /\ kind = "array" /\ len > 0 /\ len < N
    /\ gidx = len /\ gres = None
    /\ \E t \in Threads : pc[t] = "publish"

\* get(idx) with no push in between its loads, of either vector.
Get(idx) == IF kind = "array" THEN {FsvGet(idx)} ELSE LlvGet(idx)

\* C8: write-once reads: a get that returns a value returns the value the
\* first get of that index returned, which stays the value at that index; no
\* value was returned for two indices; and once every push returned, each
\* stored element is at exactly one index.
C8_WriteOnceReads ==
    /\ (gpc = "idle" /\ gres.tag = "Some") => seen[gidx] = gres.v
    /\ \A i \in 0..TotalPushes : seen[i] # Uninit => Get(i) = {Some(seen[i])}
    /\ \A i, j \in 0..TotalPushes :
        (seen[i] # Uninit /\ seen[i] = seen[j]) => i = j
    /\ AllReturned =>
        \A tk \in Stored :
            Cardinality({i \in 0..TotalPushes :
                            Get(i) = {Some(Val(tk[1], tk[2]))}}) = 1

\* A later get of an index that already yielded a value has walked, after
\* further pushes, to the node holding that value.
C8_Witness ==
    /\ kind = "list" /\ gpc = "walk" /\ gi = gidx /\ gidx >= 1
    /\ seen[gidx] # Uninit /\ seen[0] # Uninit
    /\ gp # NULL /\ data[gp] = seen[gidx]
    /\ len > gidx + 1

\* The nodes met walking from head along next, in order.
RECURSIVE LlvChain(_, _)
LlvChain(p, fuel) ==
    IF p = NULL \/ fuel = 0 THEN <<>>
    ELSE <<p>> \o LlvChain(next[p], fuel - 1)

\* The thread whose push allocated node n, and the number of that push.
ThreadOf(n) == ((n - 1) \div PushesPerThread) + 1
PushNoOf(n) == ((n - 1) % PushesPerThread) + 1

\* C9: the order of one thread's own pushes is preserved.  FixSizedVec: the
\* slots of a thread's Ok pushes increase in push order.  LinkedListVec: of
\* two nodes pushed by one thread, the one pushed earlier is nearer to head,
\* and every node is on the chain once every push returned.
C9_OwnOrderPreserved ==
    /\ kind = "array" =>
        \A t \in Threads : \A k1, k2 \in 1..Len(ret[t]) :
            (k1 < k2 /\ ret[t][k1].ok /\ ret[t][k2].ok)
                => ret[t][k1].idx < ret[t][k2].idx
    /\ kind = "list" =>
        LET c == LlvChain(head, TotalPushes)
        IN /\ \A i1, i2 \in 1..Len(c) :
                (i1 < i2 /\ ThreadOf(c[i1]) = ThreadOf(c[i2]))
                    => PushNoOf(c[i1]) < PushNoOf(c[i2])
           /\ AllDone => \A n \in Nodes : \E i \in 1..Len(c) : c[i] = n

\* Thread 1's two nodes are on the chain with a node of thread 2 between.
C9_Witness ==
    /\ kind = "list" /\ Len(ret[1]) = 2
    /\ LlvWalk(head, 0) = Val(1, 1)
    /\ LlvWalk(head, 1) = Val(2, 1)
    /\ LlvWalk(head, 2) = Val(1, 2)

\* C10: the value len() returns never decreases across a step.
C10_LenMonotonic == [][VecLen' >= VecLen]_vars

\* The counter has been advanced twice and pushes are still running.
C10_Witness == VecLen >= 2 /\ ~AllDone /\ \E t \in Threads : pc[t] = "inc"

\* The slots whose flag is true.
Published == {i \in Slots : inited[i]}

\* C11: FixSizedVec: the number of published slots is at most the counter,
\* which is at most N, and the counter exceeds the number of published slots
\* by the number of pushes that reserved a slot and have not published it.
C11_PublishedAtMostLen ==
    kind = "array" =>
        /\ Cardinality(Published) <= len
        /\ len <= N
        /\ len - Cardinality(Published)
              = Cardinality({t \in Threads : InFlight(t)})

\* Two slots are reserved, one of them published and one still being written.
C11_Witness ==
    /\ kind = "array" /\ len = 2
    /\ Cardinality(Published) = 1
    /\ \E t \in Threads : pc[t] = "write_end"

\* The elements of sequence s are pairwise distinct.
NoRepeat(s) == \A i, j \in 1..Len(s) : s[i] = s[j] => i = j

\* C12: LinkedListVec: dropped with no push running, the walk reclaims every
\* node a push allocated exactly once and in link order, and never takes a
\* null or an already reclaimed node.
C12_DropReclaimsAll ==
    (kind = "list" /\ dpc # "live") =>
        /\ fault = "none"
        /\ NoRepeat(freed)
        /\ \A i \in 1..Len(freed) : freed[i] = linked[i]
        /\ dpc = "done" =>
            /\ freed = linked
            /\ freed = LlvChain(head, TotalPushes)
            /\ {freed[i] : i \in 1..Len(freed)} = allocated

\* The walk ended after reclaiming all T*K nodes, thread T's first node first.
C12_Witness ==
    /\ kind = "list" /\ dpc = "done"
    /\ Len(freed) = TotalPushes
    /\ freed[1] = Val(NumThreads, 1)

\* C13: FixSizedVec: when the vector is destroyed, the element of every
\* published slot is finalized exactly once and no other slot is touched.
C13_ArrayDropFinalizes ==
    (kind = "array" /\ dpc = "done") =>
        \A i \in Slots :
            Cardinality({j \in 1..Len(freed) : freed[j] = i})
                = IF inited[i] THEN 1 ELSE 0

\* The result of the push of thread t that returns in this step is Ok.
ReturnsOk(t) == Len(ret'[t]) > Len(ret[t]) => ret'[t][Len(ret'[t])].ok

\* C14: push is lock-free and terminates.  An exchange of a push fails only
\* when an exchange of another push on the same word succeeded since the
\* snapshot (array: the counter moved past the snapshot; list: a node was
\* linked behind the snapshot, or, for the exchange from null, some node was
\* linked); no push panics and a list push returns Ok; and with every thread
\* scheduled weakly fairly every push call returns.
C14_LockFreeTerminates ==
    /\ [][\A t \in Threads :
            /\ (pc[t] = "cas" /\ pc'[t] = "load") => len > snapshot[t]
            /\ (pc[t] = "cas_null" /\ pc'[t] = "load_tail") => Len(linked) >= 1
            /\ (pc[t] = "cas_tail" /\ pc'[t] = "load_tail") =>
                  \E i \in 1..(Len(linked) - 1) : linked[i] = snapshot[t]
            /\ pc'[t] # "panic"
            /\ kind = "list" => ReturnsOk(t)]_vars
    /\ <>AllReturned

\* A thread's first list push lost the exchange on tail and is about to
\* reload tail, while the array case is covered by the other runs of Init.
C14_Witness ==
    /\ kind = "list"
    /\ \E t \in Threads :
        /\ pc[t] = "load_tail" /\ Len(ret[t]) = 0
        /\ snapshot[t] # NULL /\ tail # snapshot[t]

\* C15: LinkedListVec: pushes are ordered by the order in which they won the
\* exchange on tail, and tail is the node linked last.  With no push in
\* flight the chain from head is exactly that order, each pushed node once;
\* tail is reached after count - 1 steps and its next is null.
C15_ChainIsCasOrder ==
    kind = "list" =>
        /\ NoRepeat(linked)
        /\ linked # <<>> => tail = linked[Len(linked)]
        /\ NoPushRunning =>
            /\ LlvChain(head, TotalPushes) = linked
            /\ {linked[i] : i \in 1..Len(linked)} = allocated
            /\ Len(linked) = len
            /\ linked # <<>> =>
                /\ LlvWalk(head, Len(linked) - 1) = tail
                /\ next[tail] = NULL

\* Three pushes returned, none is in flight, and the chain starts with a node
\* of the last thread followed by a node of thread 1.
C15_Witness ==
    /\ kind = "list" /\ NoPushRunning /\ len = 3
    /\ ThreadOf(head) = NumThreads
    /\ ThreadOf(next[head]) = 1

\* C16: LinkedListVec: exactly one push wins the exchange of tail from null;
\* head is stored once, by that push, to its node, the first node linked, and
\* never changes afterwards.
C16_OneFirstPush ==
    /\ [](kind = "list" =>
            /\ Cardinality({t \in Threads : pc[t] = "set_head"}) <= 1
            /\ \A t \in Threads : pc[t] = "set_head" =>
                  head = NULL /\ linked[1] = NodePtr(t)
            /\ head # NULL => head = linked[1]
            /\ AllDone => head # NULL)
    /\ [][/\ \A t \in Threads :
                (pc[t] = "cas_null" /\ pc'[t] = "set_head") => linked = <<>>
          /\ head' # head =>
                /\ head = NULL
                /\ \E t \in Threads : pc[t] = "set_head" /\ head' = NodePtr(t)]_vars

\* A push of the last thread won the exchange from null and stored head, and
\* a push of thread 1 lost it and linked its node behind.
C16_Witness ==
    /\ kind = "list" /\ head # NULL
    /\ ThreadOf(head) = NumThreads
    /\ Len(linked) >= 2 /\ ThreadOf(linked[2]) = 1

Min(a, b) == IF a <= b THEN a ELSE b

\* C17: FixSizedVec: a push returns Err only when the counter has reached N;
\* when the M calls issued so far have all returned, Min(M, N) of them
\* returned Ok and len is Min(M, N).
C17_NoSpuriousFull ==
    /\ [](kind = "array" =>
            /\ \A t \in Threads : pc[t] # "panic"
            /\ NoPushRunning =>
                /\ Cardinality(Stored) = Min(Cardinality(Returned), N)
                /\ len = Min(Cardinality(Returned), N))
    /\ [][kind = "array" =>
            \A t \in Threads :
                \/ ReturnsOk(t)
                \/ /\ len = N
                   /\ \A i \in 0..(N - 1) : Cardinality(Owners(i)) = 1]_vars

\* Three calls returned, two Ok and the third Err, with N = 2.
C17_Witness ==
    /\ kind = "array" /\ N = 2 /\ NoPushRunning
    /\ Cardinality(Returned) = 3 /\ Cardinality(Stored) = 2

\* C18: LinkedListVec: once tail holds a node it is never null again, so the
\* assert_ne in the retry loop never fails: no push panics, and a push past
\* its exchange from null finds tail non-null.
C18_TailNeverNullAgain ==
    /\ [](kind = "list" =>
            \A t \in Threads :
                /\ pc[t] # "panic"
                /\ pc[t] \in {"load_tail", "cas_tail", "set_next", "set_head", "inc"}
                      => tail # NULL
                /\ pc[t] \in {"cas_tail", "set_next"} => snapshot[t] # NULL)
    /\ [][tail # NULL => tail' # NULL]_vars

\* A push lost the exchange from null, lost an exchange on tail as well and is
\* at the assertion again.
C18_Witness ==
    /\ kind = "list"
    /\ \E t \in Threads :
        /\ pc[t] = "load_tail" /\ Len(ret[t]) = 0
        /\ snapshot[t] # NULL /\ tail # snapshot[t]
        /\ Len(linked) = 2 /\ head = linked[1]

\* C19: LinkedListVec: the Debug walk from the snapshot of head to the
\* snapshot of tail, run concurrently with pushes, never takes a null pointer
\* as a node: every pointer it visits is a linked node.
C19_FmtNeverDerefsNull ==
    kind = "list" =>
        /\ fault = "none"
        /\ fpc = "visit" => \E i \in 1..Len(linked) : linked[i] = fp

\* C20: LinkedListVec: the destruction walk stores nothing to head or tail:
\* after it has reclaimed the nodes they hold what they held before, which
\* for a non-empty list are the first and the last reclaimed node, not null.
C20_HeadTailKept ==
    /\ [](kind = "list" /\ dpc = "done" =>
            /\ head = dhead /\ tail = dtail
            /\ freed # <<>> =>
                /\ head = freed[1] /\ tail = freed[Len(freed)]
                /\ head # NULL /\ tail # NULL)
    /\ [][dpc # "live" => (head' = head /\ tail' = tail)]_vars

\* The walk ended after reclaiming two nodes or more; head and tail still
\* point at the first and at the last of them.
C20_Witness ==
    /\ kind = "list" /\ dpc = "done"
    /\ Len(freed) >= 2
    /\ head = freed[1] /\ tail = freed[Len(freed)]

\* C20 as stated: after the destruction walk head and tail are null.
C20_HeadTailReset ==
    (kind = "list" /\ dpc = "done") => (head = NULL /\ tail = NULL)
====
